---- MODULE Spec2Model ----
(***************************************************************************)
(* Monolith: the CI/CD scaffolder.                                         *)
(*                                                                         *)
(* Text is modelled as a sequence of atoms.  An atom is either one         *)
(* character (" ", "\n", "$") or a fixed run of characters that the code   *)
(* only ever tests as a whole ("- name:", "{{", "Run migrations", "x" for  *)
(* any other text).  split, join, trim, startsWith, includes and the       *)
(* regular expressions of the source are computed on these sequences.      *)
(***************************************************************************)
EXTENDS Naturals, Sequences, FiniteSets, TLC

VARIABLES
    yamlIn,      \* removeStepBlock: argument yaml
    stepIn,      \* removeStepBlock: argument stepNameSubstring
    yamlOut,     \* removeStepBlock: returned text
    remPc,       \* "call" before the call, "done" after it, "again" after the second
    yamlAgain,   \* removeStepBlock: returned text of the call on yamlOut
    tplIn,       \* replacePlaceholders: argument str
    varsIn,      \* replacePlaceholders: argument vars, as Object.entries lists it
    tplOut,      \* replacePlaceholders: returned text
    repPc,       \* "call" before the call, "done" after it
    prog,        \* which program the runs are of: "copier" (index.js) or "scaffolder"
    cfg,         \* the answers to the prompts and the state of the host
    deployTemplate, \* text of templates/workflows/deploy.yml.template
    fresh,       \* target path -> the text a rendering under cfg gives it
    disk,        \* target path -> text of the file, or Absent
    dirs,        \* the directories that exist under the working directory
    execBits,    \* the paths chmod has made executable
    pc,          \* position of the run
    exitCode,    \* exit code of the last run, NoCode while it runs
    force,       \* copier: --force was given for this run
    copyIdx,     \* copier: index of the next template file
    scriptIdx,   \* scaffolder: index of the next script
    deployTpl,   \* scaffolder: the local variable deployTpl
    deployLog,   \* the operations applied to the deploy text, in order
    report,      \* copier: the Copied / Skipped lines logged in this run
    written,     \* the paths written in this run, in order
    failedAt,    \* the path whose materialization failed in this run
    snapshot,    \* disk as it was when this run started
    snapDirs,    \* dirs as they were when this run started
    prevClean,   \* the last run ended with code 0, without --force, and nothing was edited since
    followsClean, \* prevClean as it was when this run started
    runsLeft,    \* runs still allowed
    editsLeft    \* manual edits still allowed

remVars == <<yamlIn, stepIn, yamlOut, remPc, yamlAgain>>
repVars == <<tplIn, varsIn, tplOut, repPc>>
cfgVars == <<prog, cfg, deployTemplate, fresh>>
fsVars == <<disk, dirs, execBits>>
ctlVars == <<pc, exitCode, force, copyIdx, scriptIdx, deployTpl, deployLog>>
histVars == <<report, written, failedAt, snapshot, snapDirs, prevClean, followsClean>>
budgetVars == <<runsLeft, editsLeft>>
runVars == <<cfgVars, fsVars, ctlVars, histVars, budgetVars>>

vars == <<remVars, repVars, runVars>>

----------------------------------------------------------------------------
(* Bounds of the model *)

\* lines of a document handed to removeStepBlock
MaxLines == 4

\* pieces (text runs and placeholder tokens) of a template handed to
\* replacePlaceholders
MaxPieces == 3

----------------------------------------------------------------------------
(* Atoms *)

NL == "\n"
SP == " "
NameMarker == "- name:"
UsesMarker == "- uses:"
RunMarker == "- run:"
\* the literal main passes to removeStepBlock
RunMigrations == "Run migrations"

\* the delimiters of a placeholder
LB == "{{"
RB == "}}"
\* replacement patterns of String.prototype.replace
DollarAmp == "$&"
DollarDollar == "$$"
Dollar == "$"

IsSpace(c) == c = SP

----------------------------------------------------------------------------
(* String primitives of the JavaScript runtime, on atom sequences *)

RECURSIVE TrimStart(_)
TrimStart(s) ==
    IF s # <<>> /\ IsSpace(Head(s)) THEN TrimStart(Tail(s)) ELSE s

RECURSIVE TrimEnd(_)
TrimEnd(s) ==
    IF s # <<>> /\ IsSpace(s[Len(s)]) THEN TrimEnd(SubSeq(s, 1, Len(s) - 1)) ELSE s

\* String.prototype.trim
Trim(s) == TrimEnd(TrimStart(s))

\* String.prototype.startsWith
StartsWith(s, p) == Len(s) >= Len(p) /\ SubSeq(s, 1, Len(p)) = p

\* String.prototype.includes
Includes(s, sub) ==
    \E i \in 1..(Len(s) + 1) :
        i + Len(sub) - 1 <= Len(s) /\ SubSeq(s, i, i + Len(sub) - 1) = sub

\* String.prototype.split("\n"): always at least one (possibly empty) line
RECURSIVE SplitFrom(_, _, _)
SplitFrom(s, cur, acc) ==
    IF s = <<>> THEN Append(acc, cur)
    ELSE IF Head(s) = NL THEN SplitFrom(Tail(s), <<>>, Append(acc, cur))
    ELSE SplitFrom(Tail(s), Append(cur, Head(s)), acc)

Split(s) == SplitFrom(s, <<>>, <<>>)

\* Array.prototype.join("\n")
RECURSIVE Join(_)
Join(lines) ==
    IF lines = <<>> THEN <<>>
    ELSE IF Len(lines) = 1 THEN lines[1]
    ELSE lines[1] \o <<NL>> \o Join(Tail(lines))

----------------------------------------------------------------------------
(* removeStepBlock *)

\* number of leading whitespace atoms of a line
Indent(line) == Len(line) - Len(TrimStart(line))

\* trimmed.startsWith("- name:") && trimmed.includes(stepNameSubstring)
IsTargetHeader(line, stepNameSubstring) ==
    /\ StartsWith(Trim(line), <<NameMarker>>)
    /\ Includes(Trim(line), stepNameSubstring)

\* line.match(/^\s+- (name:|uses:|run:)/)
MatchesStepRegex(line) ==
    /\ Indent(line) >= 1
    /\ Len(line) > Indent(line)
    /\ line[Indent(line) + 1] \in {NameMarker, UsesMarker, RunMarker}

\* mutant of EndsSkipping: the pattern test is left out
EndsSkippingNoRegex(line, stepNameSubstring) ==
    ~Includes(Trim(line), stepNameSubstring)

\* mutant of EndsSkipping: the test of the step name is left out
EndsSkippingAnyStep(line, stepNameSubstring) == MatchesStepRegex(line)

\* skipping && line.match(...) && !trimmed.includes(stepNameSubstring)
EndsSkipping(line, stepNameSubstring) ==
    MatchesStepRegex(line) /\ ~Includes(Trim(line), stepNameSubstring)

\* mutant of ScanLines: result.push(trimmed) in place of result.push(line)
RECURSIVE ScanLinesTrimmed(_, _, _, _, _)
ScanLinesTrimmed(lines, stepNameSubstring, i, skipping, result) ==
    IF i > Len(lines) THEN result
    ELSE IF ~skipping /\ IsTargetHeader(lines[i], stepNameSubstring)
         THEN ScanLinesTrimmed(lines, stepNameSubstring, i + 1, TRUE, result)
    ELSE LET sk == IF skipping /\ EndsSkipping(lines[i], stepNameSubstring)
                   THEN FALSE ELSE skipping
         IN ScanLinesTrimmed(lines, stepNameSubstring, i + 1, sk,
                             IF ~sk THEN Append(result, Trim(lines[i])) ELSE result)

\* the for loop: i is the index of the next line, result the lines kept so far
RECURSIVE ScanLines(_, _, _, _, _)
ScanLines(lines, stepNameSubstring, i, skipping, result) ==
    IF i > Len(lines) THEN result
    ELSE IF ~skipping /\ IsTargetHeader(lines[i], stepNameSubstring)
         THEN ScanLines(lines, stepNameSubstring, i + 1, TRUE, result)
    ELSE LET sk == IF skipping /\ EndsSkipping(lines[i], stepNameSubstring)
                   THEN FALSE ELSE skipping
         IN ScanLines(lines, stepNameSubstring, i + 1, sk,
                      IF ~sk THEN Append(result, lines[i]) ELSE result)

removeStepBlock(yaml, stepNameSubstring) ==
    Join(ScanLines(Split(yaml), stepNameSubstring, 1, FALSE, <<>>))

----------------------------------------------------------------------------
(* Documents handed to removeStepBlock *)

\* the shapes of line a workflow document is made of
YamlLines ==
    { <<>>,
      <<NameMarker, "x">>,
      <<NameMarker, RunMigrations>>,
      <<SP, NameMarker, "x">>,
      <<SP, NameMarker, RunMigrations, "x">>,
      <<SP, RunMarker, RunMigrations>>,
      <<SP, SP, "x", SP>>,
      <<SP, SP, "x", RunMigrations>>,
      <<SP, SP, RunMarker, "x">> }

RECURSIVE LineSeqs(_)
LineSeqs(n) ==
    IF n = 0 THEN {<<>>}
    ELSE LET shorter == LineSeqs(n - 1)
         IN shorter \cup { Append(ls, l) : ls \in { s \in shorter : Len(s) = n - 1 },
                                           l \in YamlLines }

YamlDocs(n) == { Join(ls) : ls \in LineSeqs(n) \ {<<>>} }

StepNames == { <<RunMigrations>>, <<"x">> }

\* the variables of the other specifications, parked
RepIdle == tplIn = <<>> /\ varsIn = <<>> /\ tplOut = <<>> /\ repPc = "idle"
RemIdle ==
    yamlIn = <<>> /\ stepIn = <<>> /\ yamlOut = <<>> /\ remPc = "idle" /\ yamlAgain = <<>>
RunIdle ==
    /\ prog = "none" /\ cfg = <<>> /\ deployTemplate = <<>> /\ fresh = <<>>
    /\ disk = <<>> /\ dirs = {} /\ execBits = {}
    /\ pc = "none" /\ exitCode = "none" /\ force = FALSE
    /\ copyIdx = 0 /\ scriptIdx = 0 /\ deployTpl = <<>> /\ deployLog = <<>>
    /\ report = <<>> /\ written = <<>> /\ failedAt = "none"
    /\ snapshot = <<>> /\ snapDirs = {} /\ prevClean = FALSE /\ followsClean = FALSE
    /\ runsLeft = 0 /\ editsLeft = 0

InitRemove ==
    /\ yamlIn \in YamlDocs(MaxLines)
    /\ stepIn \in StepNames
    /\ yamlOut = <<>>
    /\ yamlAgain = <<>>
    /\ remPc = "call"
    /\ RepIdle
    /\ RunIdle

CallRemoveStepBlock ==
    /\ remPc = "call"
    /\ yamlOut' = removeStepBlock(yamlIn, stepIn)
    /\ remPc' = "done"
    /\ UNCHANGED <<yamlIn, stepIn, yamlAgain, repVars, runVars>>

\* removeStepBlock called on the text it returned, with the same step name
CallRemoveStepBlockAgain ==
    /\ remPc = "done"
    /\ yamlAgain' = removeStepBlock(yamlOut, stepIn)
    /\ remPc' = "again"
    /\ UNCHANGED <<yamlIn, stepIn, yamlOut, repVars, runVars>>

NextRemove ==
    \/ CallRemoveStepBlock
    \/ CallRemoveStepBlockAgain

SpecRemove == InitRemove /\ [][NextRemove]_vars

----------------------------------------------------------------------------
(* Claims about removeStepBlock, checked under SpecRemove *)

RemLines == Split(yamlIn)

\* line i is a step header "- name: ..." indented by exactly d
IsHeaderAt(lines, i, d) ==
    /\ Indent(lines[i]) = d
    /\ StartsWith(Trim(lines[i]), <<NameMarker>>)

\* the document is three sibling steps A, B, C: headers at lines 1, b and c
\* at one indentation d >= 1, every other line deeper than d (a body line),
\* and B's header the only line that contains the step name
ThreeSiblingSteps(lines, b, c, sub) ==
    /\ 1 < b /\ b < c /\ c <= Len(lines)
    /\ \E d \in 1..2 :
          /\ \A i \in {1, b, c} : IsHeaderAt(lines, i, d)
          /\ \A i \in (1..Len(lines)) \ {1, b, c} : Indent(lines[i]) > d
    /\ \A i \in 1..Len(lines) : Includes(lines[i], sub) <=> i = b

\* the lines of A followed by the lines of C
LinesOfAandC(lines, b, c) == SubSeq(lines, 1, b - 1) \o SubSeq(lines, c, Len(lines))

\* C1: for a document of three sibling steps A, B, C where only B's header
\* contains the step name, removeStepBlock returns exactly the lines of A and
\* C in order, without B's header and without any line of B's body.
C1_RemovesExactlyB ==
    remPc = "done" =>
        \A b, c \in 1..Len(RemLines) :
            ThreeSiblingSteps(RemLines, b, c, stepIn) =>
                yamlOut = Join(LinesOfAandC(RemLines, b, c))

NoTargetHeader(lines, sub) ==
    \A i \in 1..Len(lines) : ~IsTargetHeader(lines[i], sub)

\* C2: when no line, once trimmed, both starts with "- name:" and contains
\* the step name, removeStepBlock returns its argument unchanged, atom for
\* atom, line breaks included.
C2_NoMatchUnchanged ==
    (remPc = "done" /\ NoTargetHeader(RemLines, stepIn)) => yamlOut = yamlIn

\* C2 witness: a document of several lines, some of them step headers and one
\* mentioning the step name in its body, none a header for the step name.
C2_Witness ==
    /\ remPc = "done"
    /\ NoTargetHeader(RemLines, stepIn)
    /\ Len(RemLines) >= 3
    /\ \E i \in 1..Len(RemLines) : MatchesStepRegex(RemLines[i])
    /\ \E i \in 1..Len(RemLines) : Includes(RemLines[i], stepIn)
    /\ yamlOut = yamlIn

\* a line that opens a step, at any indentation
IsStepBoundaryLine(line) ==
    Trim(line) # <<>> /\ Head(Trim(line)) \in {NameMarker, UsesMarker, RunMarker}

\* line h is the first header for the step name and no step-boundary line
\* follows it
IsFinalStep(lines, h, sub) ==
    /\ IsTargetHeader(lines[h], sub)
    /\ \A i \in 1..(h - 1) : ~IsTargetHeader(lines[i], sub)
    /\ \A i \in (h + 1)..Len(lines) : ~IsStepBoundaryLine(lines[i])

\* C3: when the matched step is the final step of the document, the header
\* and every line after it are dropped and every line before it is retained
\* verbatim.
C3_FinalStepRemovedToEnd ==
    remPc = "done" =>
        \A h \in 1..Len(RemLines) :
            IsFinalStep(RemLines, h, stepIn) =>
                yamlOut = Join(SubSeq(RemLines, 1, h - 1))

\* C3 witness: a final step with a body under it and kept lines before it.
C3_Witness ==
    /\ remPc = "done"
    /\ \E h \in 2..(Len(RemLines) - 1) :
          /\ IsFinalStep(RemLines, h, stepIn)
          /\ yamlOut = Join(SubSeq(RemLines, 1, h - 1))
          /\ yamlOut # <<>>

----------------------------------------------------------------------------
(* replacePlaceholders *)

\* \s* : the index of the first atom at or after i that is not whitespace
RECURSIVE SkipSpaces(_, _)
SkipSpaces(s, i) ==
    IF i <= Len(s) /\ IsSpace(s[i]) THEN SkipSpaces(s, i + 1) ELSE i

\* mutant of MatchEnd: the pattern lacks the closing \s*}}
MatchEndUnclosed(s, i, key) ==
    IF s[i] # LB THEN 0
    ELSE LET j == SkipSpaces(s, i + 1)
             k == j + Len(key)
         IN IF k - 1 <= Len(s) /\ SubSeq(s, j, k - 1) = key THEN k - 1 ELSE 0

\* new RegExp(`{{\\s*${key}\\s*}}`) tried at index i: the index of the last
\* atom of the match, 0 when there is no match at i
MatchEnd(s, i, key) ==
    IF s[i] # LB THEN 0
    ELSE LET j == SkipSpaces(s, i + 1)
             k == j + Len(key)
         IN IF k - 1 <= Len(s) /\ SubSeq(s, j, k - 1) = key
            THEN LET e == SkipSpaces(s, k)
                 IN IF e <= Len(s) /\ s[e] = RB THEN e ELSE 0
            ELSE 0

\* mutant of Substitution: the replacement is inserted literally
SubstitutionLiteral(val, matched) == val

\* the replacement string of String.prototype.replace: $& is the matched
\* text, $$ a dollar sign, anything else itself
RECURSIVE Substitution(_, _)
Substitution(val, matched) ==
    IF val = <<>> THEN <<>>
    ELSE LET rest == Substitution(Tail(val), matched)
         IN CASE Head(val) = DollarAmp -> matched \o rest
              [] Head(val) = DollarDollar -> <<Dollar>> \o rest
              [] OTHER -> <<Head(val)>> \o rest

\* out.replace(re, val) with the g flag: left to right, matches do not
\* overlap, inserted text is not scanned again
RECURSIVE ReplaceFrom(_, _, _, _, _)
ReplaceFrom(s, i, key, val, out) ==
    IF i > Len(s) THEN out
    ELSE LET e == MatchEnd(s, i, key)
         IN IF e = 0 THEN ReplaceFrom(s, i + 1, key, val, Append(out, s[i]))
            ELSE ReplaceFrom(s, e + 1, key, val,
                             out \o Substitution(val, SubSeq(s, i, e)))

ReplaceAll(s, key, val) == ReplaceFrom(s, 1, key, val, <<>>)

\* for (const [key, val] of Object.entries(vars)): entries is the list of
\* <<key, val>> pairs in insertion order.  Every value main puts in the map
\* is a string, so val ?? "" is val.
RECURSIVE ReplaceEntries(_, _, _)
ReplaceEntries(out, entries, n) ==
    IF n > Len(entries) THEN out
    ELSE ReplaceEntries(ReplaceAll(out, entries[n][1], entries[n][2]), entries, n + 1)

replacePlaceholders(str, entries) == ReplaceEntries(str, entries, 1)

----------------------------------------------------------------------------
(* Templates and Variable Maps handed to replacePlaceholders *)

FOO == <<"FOO">>
FOOBAR == <<"FOO", "BAR">>
NameAtoms == {"FOO", "BAR"}

KeyNames == {FOO, FOOBAR}

TemplatePieces ==
    { <<"x">>,
      <<LB>>,
      <<RB>>,
      <<LB, "FOO", RB>>,
      <<LB, SP, "FOO", SP, RB>>,
      <<LB, "FOO", "BAR", RB>> }

RECURSIVE Templates(_)
Templates(n) ==
    IF n = 0 THEN {<<>>}
    ELSE Templates(n - 1) \cup { t \o p : t \in Templates(n - 1), p \in TemplatePieces }

Values ==
    { <<>>,
      <<"x">>,
      <<DollarAmp>>,
      <<"x", DollarDollar>>,
      <<LB, "FOO", RB>> }

\* the maps, each in every insertion order of its keys
VarMaps ==
    {<<>>}
    \cup { <<<<k, v>>>> : k \in KeyNames, v \in Values }
    \cup { <<<<ks[1], v1>>, <<ks[2], v2>>>> :
              ks \in { p \in KeyNames \X KeyNames : p[1] # p[2] },
              v1 \in Values, v2 \in Values }

InitReplace ==
    /\ tplIn \in Templates(MaxPieces)
    /\ varsIn \in VarMaps
    /\ tplOut = <<>>
    /\ repPc = "call"
    /\ RemIdle
    /\ RunIdle

CallReplacePlaceholders ==
    /\ repPc = "call"
    /\ tplOut' = replacePlaceholders(tplIn, varsIn)
    /\ repPc' = "done"
    /\ UNCHANGED <<tplIn, varsIn, remVars, runVars>>

NextReplace == CallReplacePlaceholders

SpecReplace == InitReplace /\ [][NextReplace]_vars

----------------------------------------------------------------------------
(* Claims about replacePlaceholders, checked under SpecReplace *)

KeysOf(entries) == { entries[n][1] : n \in 1..Len(entries) }

\* a placeholder token occupies s[i..j]: "{{", optional whitespace, a name,
\* optional whitespace, "}}"
PlaceholderAt(s, i, j) ==
    /\ 1 <= i /\ i < j /\ j <= Len(s)
    /\ s[i] = LB /\ s[j] = RB
    /\ LET name == Trim(SubSeq(s, i + 1, j - 1))
       IN name # <<>> /\ \A n \in 1..Len(name) : name[n] \in NameAtoms

PlaceholderName(s, i, j) == Trim(SubSeq(s, i + 1, j - 1))

HasPlaceholder(s) == \E i, j \in 1..Len(s) : PlaceholderAt(s, i, j)

\* C4: when every placeholder token of the template names a key of the map,
\* the rendered text holds no placeholder token, whatever the values are.
C4_NoPlaceholderRemains ==
    ( /\ repPc = "done"
      /\ \A i, j \in 1..Len(tplIn) :
            PlaceholderAt(tplIn, i, j) => PlaceholderName(tplIn, i, j) \in KeysOf(varsIn) )
    => ~HasPlaceholder(tplOut)

\* C5: a placeholder whose name is not a key of the map is left as it is,
\* whatever keys the map holds: the text before it and the text after it are
\* rendered on their own and the token stands between them unchanged.  With
\* FOOBAR in the map and FOO not, every {{FOO}} stays.
C5_WholeTokenMatch ==
    repPc = "done" =>
        \A i, j \in 1..Len(tplIn) :
            (PlaceholderAt(tplIn, i, j) /\ PlaceholderName(tplIn, i, j) \notin KeysOf(varsIn))
            => tplOut = replacePlaceholders(SubSeq(tplIn, 1, i - 1), varsIn)
                        \o SubSeq(tplIn, i, j)
                        \o replacePlaceholders(SubSeq(tplIn, j + 1, Len(tplIn)), varsIn)

\* C5 witness: the map holds FOOBAR and not FOO, the template holds {{FOO}}
\* and {{FOOBAR}}; the latter was replaced and the former is still there.
C5_Witness ==
    /\ repPc = "done"
    /\ KeysOf(varsIn) = {FOOBAR}
    /\ Includes(tplIn, <<LB, "FOO", RB>>)
    /\ Includes(tplIn, <<LB, "FOO", "BAR", RB>>)
    /\ Includes(tplOut, <<LB, "FOO", RB>>)
    /\ ~Includes(tplOut, <<LB, "FOO", "BAR", RB>>)

----------------------------------------------------------------------------
(* The two programs: the copier (index.js) and the interactive scaffolder *)

\* runs of one behaviour
MaxRuns == 2
\* manual edits of target files in one behaviour
MaxEdits == 1
\* lines of the deploy template in SpecDeploy
MaxDeployLines == 3

Absent == <<"(absent)">>
\* a file somebody else wrote or modified
UserText == <<"(user)">>
\* a file a failed write left behind
Truncated == <<>>
NoCode == "none"

CiYml == ".github/workflows/ci.yml"
BuildYml == ".github/workflows/build.yml"
DeployYml == ".github/workflows/deploy.yml"
RollbackYml == ".github/workflows/rollback.yml"
SecurityScanYml == ".github/workflows/security-scan.yml"
MonolithYml == ".github/workflows/monolith.yml"
DeploySh == "scripts/deploy.sh"
RollbackSh == "scripts/rollback.sh"
HealthCheckSh == "scripts/health-check.sh"
Dockerfile == "Dockerfile"
Dockerignore == ".dockerignore"
\* a file the copier finds in a sub-directory of its templates
NestedYml == ".github/workflows/sub/extra.yml"

WorkflowPaths == {CiYml, BuildYml, DeployYml, RollbackYml, SecurityScanYml}
ScriptPaths == {DeploySh, RollbackSh, HealthCheckSh}
ScaffolderPaths == WorkflowPaths \cup ScriptPaths \cup {MonolithYml, Dockerfile, Dockerignore}
CopierPaths == {CiYml, NestedYml}
Paths == ScaffolderPaths \cup CopierPaths

\* path.dirname(targetPath) and the directories above it, below the working
\* directory (which exists)
ParentDirs(path) ==
    CASE path = NestedYml -> {".github", ".github/workflows", ".github/workflows/sub"}
      [] path \in WorkflowPaths \cup {MonolithYml} -> {".github", ".github/workflows"}
      [] path \in ScriptPaths -> {"scripts"}
      [] OTHER -> {}

\* fs.existsSync
Exists(path) == disk[path] # Absent

\* the text of a template of the package: its own literal text and
\* placeholders
TemplateText(relPath) ==
    <<relPath, LB, "APP_NAME", RB, NL, LB, SP, "TEST_COMMAND", SP, RB>>

\* the template files of the copier's package, as copyDir walks them, with
\* the target each is copied to
CopierFiles ==
    << [src |-> "templates/ci.yml", dest |-> CiYml],
       [src |-> "templates/sub/extra.yml", dest |-> NestedYml] >>

\* the scripts array of main
Scripts ==
    << <<"scripts/deploy.sh.template", DeploySh>>,
       <<"scripts/rollback.sh.template", RollbackSh>>,
       <<"scripts/health-check.sh.template", HealthCheckSh>> >>

\* a value of presets/<stack>.json
PresetValue == <<"x">>

\* projectName.toLowerCase().replace(/[^a-z0-9-_]/g, "")
RECURSIVE Sanitize(_)
Sanitize(name) ==
    IF name = <<>> THEN <<>>
    ELSE LET a == Head(name)
         IN (CASE a = "x" -> <<"x">>
               [] a = RunMigrations -> <<"runmigrations">>
               [] OTHER -> <<>>) \o Sanitize(Tail(name))

\* const migrationCommand = mode === "production" ? await input(...) : ""
MigrationAnswer(c) == IF c.mode = "production" THEN c.migrationCommand ELSE <<>>

\* vars.MIGRATION_COMMAND
MigrationCommandOf(c) == Trim(MigrationAnswer(c))

\* const vars = { ... }, as Object.entries lists it
BuildVars(c) ==
    << << <<"APP_NAME">>, Sanitize(c.projectName) >>,
       << <<"IMAGE_NAME">>, Sanitize(c.projectName) >>,
       << <<"PORT">>, PresetValue >>,
       << <<"RUNTIME_VERSION">>, PresetValue >>,
       << <<"INSTALL_COMMAND">>, c.installCommand >>,
       << <<"LINT_COMMAND">>, c.lintCommand >>,
       << <<"TEST_COMMAND">>, c.testCommand >>,
       << <<"BUILD_COMMAND">>, PresetValue >>,
       << <<"PROD_BRANCH">>, c.prodBranch >>,
       << <<"STAGING_BRANCH">>, c.stagingBranch >>,
       << <<"MIGRATION_COMMAND">>, MigrationCommandOf(c) >>,
       << <<"HEALTH_PATH">>, PresetValue >> >>

\* the template each workflow, script and Dockerfile is rendered from
CiTemplate(c) == "workflows/ci." \o c.stack \o ".yml.template"
BuildTemplate(c) ==
    IF c.useDocker THEN "workflows/build.docker.yml.template"
    ELSE "workflows/build.basic.yml.template"
MonolithTemplate(c) == "workflows/monolith." \o c.stack \o ".yml.template"
DockerfileTemplate(c) == "docker/Dockerfile." \o c.stack \o ".template"

\* replacePlaceholders(readTemplate(relPath), vars)
Render(relPath, c) == replacePlaceholders(TemplateText(relPath), BuildVars(c))

----------------------------------------------------------------------------
(* Steps shared by the actions *)

\* process.exit(code), or main returning (code 0)
Exit(code) ==
    /\ pc' = "exited"
    /\ exitCode' = code
    /\ prevClean' = (code = 0 /\ prog = "copier" /\ ~force)

Goto(next) ==
    IF next = "exit" THEN Exit(0)
    ELSE pc' = next /\ UNCHANGED <<exitCode, prevClean>>

\* fs.mkdirSync(dirname, {recursive: true}); fs.writeFileSync / copyFileSync
WriteDone(path, content) ==
    /\ disk' = [disk EXCEPT ![path] = content]
    /\ dirs' = dirs \cup ParentDirs(path)
    /\ written' = Append(written, path)

\* mutant of ReadFails: the error handler does not set the exit code
ReadFailsExitZero(path) ==
    /\ failedAt' = path
    /\ UNCHANGED <<disk, dirs, execBits, written>>
    /\ Exit(0)

\* readTemplate throws: nothing is written; main().catch exits with code 1
ReadFails(path) ==
    /\ failedAt' = path
    /\ UNCHANGED <<disk, dirs, execBits, written>>
    /\ Exit(1)

\* mkdirSync throws and nothing has changed, or the write throws and leaves
\* the file cut short; the error handler exits with code 1
WriteFails(path) ==
    /\ failedAt' = path
    /\ \/ UNCHANGED <<disk, dirs>>
       \/ /\ dirs' = dirs \cup ParentDirs(path)
          /\ disk' = [disk EXCEPT ![path] = Truncated]
    /\ UNCHANGED <<execBits, written>>
    /\ Exit(1)

\* writeFile(path, replacePlaceholders(readTemplate(relPath), vars)) of the
\* scaffolder at position `at`, then continue at `next`
ScaffoldWrite(at, relPath, path, next) ==
    /\ prog = "scaffolder"
    /\ pc = at
    /\ \/ /\ WriteDone(path, Render(relPath, cfg))
          /\ Goto(next)
          /\ UNCHANGED <<execBits, failedAt>>
       \/ ReadFails(path)
       \/ WriteFails(path)
    /\ UNCHANGED <<cfgVars, force, copyIdx, scriptIdx, deployTpl, deployLog,
                   report, snapshot, snapDirs, followsClean, budgetVars, remVars, repVars>>

----------------------------------------------------------------------------
(* The user and the start of a run *)

\* the files the user is seen to edit: every target of the copier; of the
\* scaffolder one workflow, the combined workflow, one script, the Dockerfile
\* and .dockerignore
EditablePaths(p) ==
    IF p = "copier" THEN CopierPaths
    ELSE {CiYml, MonolithYml, DeploySh, Dockerfile, Dockerignore}

\* somebody writes or modifies a target file between two runs
UserEdit ==
    /\ pc \in {"idle", "exited"}
    /\ editsLeft > 0
    /\ \E path \in EditablePaths(prog) :
          /\ disk' = [disk EXCEPT ![path] = UserText]
          /\ dirs' = dirs \cup ParentDirs(path)
    /\ editsLeft' = editsLeft - 1
    /\ pc' = "idle"
    /\ prevClean' = FALSE
    /\ UNCHANGED <<cfgVars, execBits, exitCode, force, copyIdx, scriptIdx, deployTpl,
                   deployLog, report, written, failedAt, snapshot, snapDirs,
                   followsClean, runsLeft, remVars, repVars>>

\* the history of a run, reset when the next one starts
BeginRun ==
    /\ pc \in {"idle", "exited"}
    /\ runsLeft > 0
    /\ runsLeft' = runsLeft - 1
    /\ exitCode' = NoCode
    /\ report' = <<>>
    /\ written' = <<>>
    /\ failedAt' = "none"
    /\ snapshot' = disk
    /\ snapDirs' = dirs
    /\ followsClean' = prevClean
    /\ deployTpl' = <<>>
    /\ deployLog' = <<>>
    /\ UNCHANGED <<cfgVars, fsVars, prevClean, editsLeft, remVars, repVars>>

----------------------------------------------------------------------------
(* index.js *)

\* process.argv, then main up to the call of copyDir
CopierMain ==
    /\ prog = "copier"
    /\ BeginRun
    /\ force' \in BOOLEAN
    /\ scriptIdx' = 0
    /\ IF cfg.pkgTemplates = "ok"
       THEN pc' = "copy" /\ copyIdx' = 1
       ELSE pc' = "precheck_failed" /\ copyIdx' = 0

\* main: the templates directory is missing or empty: process.exit(1)
CopierNoTemplates ==
    /\ prog = "copier"
    /\ pc = "precheck_failed"
    /\ Exit(1)
    /\ UNCHANGED <<cfgVars, fsVars, force, copyIdx, scriptIdx, deployTpl, deployLog,
                   report, written, failedAt, snapshot, snapDirs, followsClean,
                   budgetVars, remVars, repVars>>

\* mutant of ShouldSkip: the flag is read the wrong way round
ShouldSkipInverted(dest) == Exists(dest) /\ force

\* existsSync(dest) && !force
ShouldSkip(dest) == Exists(dest) /\ ~force

\* where the copier goes after the file at copyIdx
AfterCopy == IF copyIdx = Len(CopierFiles) THEN "exit" ELSE "copy"

\* copyDir reaching one file: copyFile(src, dest)
CopyFile ==
    /\ prog = "copier"
    /\ pc = "copy"
    /\ LET f == CopierFiles[copyIdx]
       IN \/ /\ ShouldSkip(f.dest)
             /\ report' = Append(report, <<f.dest, "Skipped">>)
             /\ Goto(AfterCopy)
             /\ UNCHANGED <<fsVars, written, failedAt>>
          \/ /\ ~ShouldSkip(f.dest)
             /\ WriteDone(f.dest, <<f.src>>)
             /\ report' = Append(report, <<f.dest, "Copied">>)
             /\ Goto(AfterCopy)
             /\ UNCHANGED <<execBits, failedAt>>
          \/ /\ ~ShouldSkip(f.dest)
             /\ WriteFails(f.dest)
             /\ UNCHANGED report
          \* readdirSync or statSync throws
          \/ /\ ReadFails(f.dest)
             /\ UNCHANGED report
    /\ copyIdx' = copyIdx + 1
    /\ UNCHANGED <<cfgVars, force, scriptIdx, deployTpl, deployLog, snapshot, snapDirs,
                   followsClean, budgetVars, remVars, repVars>>

----------------------------------------------------------------------------
(* The interactive scaffolder: main *)

\* the prompts are answered (cfg), vars is built, and main branches on mode
ScaffolderMain ==
    /\ prog = "scaffolder"
    /\ BeginRun
    /\ pc' = IF cfg.mode = "simple" THEN "monolith" ELSE "ci"
    /\ scriptIdx' = 1
    /\ UNCHANGED <<force, copyIdx>>

AfterWorkflows == IF cfg.useDocker THEN "dockerfile" ELSE "exit"

WriteMonolith == ScaffoldWrite("monolith", MonolithTemplate(cfg), MonolithYml, AfterWorkflows)

WriteCi == ScaffoldWrite("ci", CiTemplate(cfg), CiYml, "build")

WriteBuild == ScaffoldWrite("build", BuildTemplate(cfg), BuildYml, "deploy_read")

\* let deployTpl = readTemplate("workflows/deploy.yml.template")
ReadDeployTemplate ==
    /\ prog = "scaffolder"
    /\ pc = "deploy_read"
    /\ \/ /\ deployTpl' = deployTemplate
          /\ deployLog' = Append(deployLog, "readTemplate")
          /\ pc' = "deploy_strip"
          /\ UNCHANGED <<fsVars, exitCode, prevClean, written, failedAt>>
       \/ /\ ReadFails(DeployYml)
          /\ UNCHANGED <<deployTpl, deployLog>>
    /\ UNCHANGED <<cfgVars, force, copyIdx, scriptIdx, report, snapshot, snapDirs,
                   followsClean, budgetVars, remVars, repVars>>

\* mutant of StripMigrations: the test of vars.MIGRATION_COMMAND is inverted
StripMigrationsInverted ==
    /\ prog = "scaffolder"
    /\ pc = "deploy_strip"
    /\ IF MigrationCommandOf(cfg) # <<>>
       THEN /\ deployTpl' = removeStepBlock(deployTpl, <<RunMigrations>>)
            /\ deployLog' = Append(deployLog, "removeStepBlock")
       ELSE UNCHANGED <<deployTpl, deployLog>>
    /\ pc' = "deploy_write"
    /\ UNCHANGED <<cfgVars, fsVars, exitCode, force, copyIdx, scriptIdx, histVars,
                   budgetVars, remVars, repVars>>

\* if (!vars.MIGRATION_COMMAND) deployTpl = removeStepBlock(deployTpl, "Run migrations")
StripMigrations ==
    /\ prog = "scaffolder"
    /\ pc = "deploy_strip"
    /\ IF MigrationCommandOf(cfg) = <<>>
       THEN /\ deployTpl' = removeStepBlock(deployTpl, <<RunMigrations>>)
            /\ deployLog' = Append(deployLog, "removeStepBlock")
       ELSE UNCHANGED <<deployTpl, deployLog>>
    /\ pc' = "deploy_write"
    /\ UNCHANGED <<cfgVars, fsVars, exitCode, force, copyIdx, scriptIdx, histVars,
                   budgetVars, remVars, repVars>>

\* writeFile(deploy.yml, replacePlaceholders(deployTpl, vars))
WriteDeploy ==
    /\ prog = "scaffolder"
    /\ pc = "deploy_write"
    /\ \/ /\ WriteDone(DeployYml, replacePlaceholders(deployTpl, BuildVars(cfg)))
          /\ deployLog' = deployLog \o <<"replacePlaceholders", "writeFile">>
          /\ pc' = "rollback"
          /\ UNCHANGED <<execBits, exitCode, prevClean, failedAt>>
       \/ /\ WriteFails(DeployYml)
          /\ deployLog' = Append(deployLog, "replacePlaceholders")
    /\ UNCHANGED <<cfgVars, force, copyIdx, scriptIdx, deployTpl, report, snapshot,
                   snapDirs, followsClean, budgetVars, remVars, repVars>>

WriteRollback ==
    ScaffoldWrite("rollback", "workflows/rollback.yml.template", RollbackYml, "security")

WriteSecurityScan ==
    ScaffoldWrite("security", "workflows/security-scan.yml.template", SecurityScanYml,
                  "scripts")

\* mutant of makeExecutable: chmod is never called
makeExecutableSkipped(p) == UNCHANGED execBits

\* try { fs.chmodSync(p, 0o755); } catch { /* Windows - ignore */ }
makeExecutable(p) ==
    execBits' = IF cfg.chmodWorks THEN execBits \cup {p} ELSE execBits

\* one turn of for (const [tplRel, outName] of scripts): writeFile, then
\* makeExecutable, whose chmod error is swallowed
WriteScript ==
    /\ prog = "scaffolder"
    /\ pc = "scripts"
    /\ LET tplRel == Scripts[scriptIdx][1]
           destPath == Scripts[scriptIdx][2]
       IN \/ /\ WriteDone(destPath, Render(tplRel, cfg))
             /\ makeExecutable(destPath)
             /\ IF scriptIdx = Len(Scripts)
                THEN Goto(AfterWorkflows) /\ scriptIdx' = scriptIdx
                ELSE Goto("scripts") /\ scriptIdx' = scriptIdx + 1
             /\ UNCHANGED failedAt
          \/ ReadFails(destPath) /\ UNCHANGED scriptIdx
          \/ WriteFails(destPath) /\ UNCHANGED scriptIdx
    /\ UNCHANGED <<cfgVars, force, copyIdx, deployTpl, deployLog, report, snapshot,
                   snapDirs, followsClean, budgetVars, remVars, repVars>>

WriteDockerfile ==
    ScaffoldWrite("dockerfile", DockerfileTemplate(cfg), Dockerfile, "dockerignore")

\* mutant of DockerignoreExists: the test is left out
DockerignoreNeverExists == FALSE

\* fs.existsSync(dockerignorePath)
DockerignoreExists == Exists(Dockerignore)

\* if (!fs.existsSync(dockerignorePath)) writeFile(dockerignorePath,
\* readTemplate("docker/.dockerignore.template")); then main returns
WriteDockerignore ==
    /\ prog = "scaffolder"
    /\ pc = "dockerignore"
    /\ \/ /\ DockerignoreExists
          /\ Exit(0)
          /\ UNCHANGED <<fsVars, written, failedAt>>
       \/ /\ ~DockerignoreExists
          /\ WriteDone(Dockerignore, <<"docker/.dockerignore.template">>)
          /\ Exit(0)
          /\ UNCHANGED <<execBits, failedAt>>
       \/ /\ ~DockerignoreExists
          /\ (ReadFails(Dockerignore) \/ WriteFails(Dockerignore))
    /\ UNCHANGED <<cfgVars, force, copyIdx, scriptIdx, deployTpl, deployLog, report,
                   snapshot, snapDirs, followsClean, budgetVars, remVars, repVars>>

----------------------------------------------------------------------------
(* What a run is to produce *)

Range(seq) == { seq[n] : n \in 1..Len(seq) }

\* the target paths of a run, in the order the program reaches them
Plan ==
    IF prog = "copier" THEN <<CiYml, NestedYml>>
    ELSE (IF cfg.mode = "simple" THEN <<MonolithYml>>
          ELSE <<CiYml, BuildYml, DeployYml, RollbackYml, SecurityScanYml,
                 DeploySh, RollbackSh, HealthCheckSh>>)
         \o (IF cfg.useDocker THEN <<Dockerfile, Dockerignore>> ELSE <<>>)

\* the freshly rendered content of a target path
FreshContent(path) ==
    IF prog = "copier"
    THEN CASE path = CiYml -> <<"templates/ci.yml">>
           [] path = NestedYml -> <<"templates/sub/extra.yml">>
           [] OTHER -> Absent
    ELSE CASE path = MonolithYml -> Render(MonolithTemplate(cfg), cfg)
           [] path = CiYml -> Render(CiTemplate(cfg), cfg)
           [] path = BuildYml -> Render(BuildTemplate(cfg), cfg)
           [] path = DeployYml ->
                replacePlaceholders(
                    IF MigrationCommandOf(cfg) = <<>>
                    THEN removeStepBlock(deployTemplate, <<RunMigrations>>)
                    ELSE deployTemplate,
                    BuildVars(cfg))
           [] path = RollbackYml -> Render("workflows/rollback.yml.template", cfg)
           [] path = SecurityScanYml -> Render("workflows/security-scan.yml.template", cfg)
           [] path = DeploySh -> Render("scripts/deploy.sh.template", cfg)
           [] path = RollbackSh -> Render("scripts/rollback.sh.template", cfg)
           [] path = HealthCheckSh -> Render("scripts/health-check.sh.template", cfg)
           [] path = Dockerfile -> Render(DockerfileTemplate(cfg), cfg)
           [] path = Dockerignore -> <<"docker/.dockerignore.template">>
           [] OTHER -> Absent

----------------------------------------------------------------------------
(* Specifications of the runs *)

Stacks == {"node", "java", "python"}

\* the deploy template of the default specification: a staging step, the
\* staging migration step, a production step, the production migration step
DefaultDeployTemplate ==
    Join(<< <<"x">>,
            <<SP, NameMarker, "x", LB, "APP_NAME", RB>>,
            <<SP, NameMarker, RunMigrations, "x">>,
            <<SP, SP, "x", LB, "MIGRATION_COMMAND", RB>>,
            <<SP, UsesMarker, "x">>,
            <<SP, NameMarker, RunMigrations, "x">>,
            <<SP, SP, "x", LB, SP, "MIGRATION_COMMAND", SP, RB>> >>)

ScaffolderAnswers(stacks, names, tests, migrations) ==
    [ mode : {"simple", "production"},
      stack : stacks,
      useDocker : BOOLEAN,
      projectName : names,
      installCommand : {<<"x">>},
      lintCommand : {<<"x">>},
      testCommand : tests,
      prodBranch : {<<"x">>},
      stagingBranch : {<<"x">>},
      migrationCommand : migrations,
      chmodWorks : BOOLEAN ]

\* the answers; the migration prompt is only shown in production mode
ScaffolderConfigs(stacks, names, tests, migrations) ==
    { c \in ScaffolderAnswers(stacks, names, tests, migrations) :
         c.mode = "simple" => c.migrationCommand = <<>> }


CopierConfigs == [ pkgTemplates : {"ok", "missing", "empty"} ]

\* the state every behaviour of the runs starts in, whatever runs
InitRun ==
    /\ RemIdle
    /\ RepIdle
    /\ disk = [p \in Paths |-> Absent]
    /\ dirs = {}
    /\ execBits = {}
    /\ pc = "idle"
    /\ exitCode = NoCode
    /\ force = FALSE
    /\ copyIdx = 0
    /\ scriptIdx = 0
    /\ deployTpl = <<>>
    /\ deployLog = <<>>
    /\ report = <<>>
    /\ written = <<>>
    /\ failedAt = "none"
    /\ snapshot = [p \in Paths |-> Absent]
    /\ snapDirs = {}
    /\ prevClean = FALSE
    /\ followsClean = FALSE

\* fresh is fixed by the configuration of the behaviour
InitFresh == fresh = [path \in Paths |-> FreshContent(path)]

Init ==
    /\ InitRun
    /\ \/ /\ prog = "copier"
          /\ cfg \in CopierConfigs
       \/ /\ prog = "scaffolder"
          /\ cfg \in ScaffolderConfigs({"node"}, {<<"x">>}, {<<"x">>}, {<<>>, <<"x">>})
    /\ deployTemplate = DefaultDeployTemplate
    /\ InitFresh
    /\ runsLeft = MaxRuns
    /\ editsLeft = MaxEdits

Next ==
    \/ UserEdit
    \/ CopierMain
    \/ CopierNoTemplates
    \/ CopyFile
    \/ ScaffolderMain
    \/ WriteMonolith
    \/ WriteCi
    \/ WriteBuild
    \/ ReadDeployTemplate
    \/ StripMigrations
    \/ WriteDeploy
    \/ WriteRollback
    \/ WriteSecurityScan
    \/ WriteScript
    \/ WriteDockerfile
    \/ WriteDockerignore

Spec == Init /\ [][Next]_vars

\* the deploy templates of SpecDeploy: up to MaxDeployLines lines, each a
\* step header, a migration step header (indented or not), a body line that
\* runs the migration command, a step opened by uses, or a top-level key
DeployLines ==
    { <<SP, NameMarker, LB, "APP_NAME", RB, LB, "TEST_COMMAND", RB>>,
      <<SP, NameMarker, RunMigrations, "x">>,
      <<NameMarker, RunMigrations>>,
      <<SP, SP, "x", LB, "MIGRATION_COMMAND", RB>>,
      <<SP, UsesMarker, "x">> }

RECURSIVE DeployLineSeqs(_)
DeployLineSeqs(n) ==
    IF n = 0 THEN {<<>>}
    ELSE DeployLineSeqs(n - 1)
         \cup { Append(ls, l) : ls \in DeployLineSeqs(n - 1), l \in DeployLines }

DeployTemplates(n) == { Join(ls) : ls \in DeployLineSeqs(n) \ {<<>>} }

\* one production-mode run of the scaffolder, over every deploy template
InitDeploy ==
    /\ InitRun
    /\ prog = "scaffolder"
    /\ cfg \in { c \in ScaffolderConfigs({"node"}, {<<"x">>, <<RunMigrations, SP, "x">>},
                                         {<<"x">>, <<RunMigrations>>},
                                         {<<SP>>, <<SP, "x", SP>>}) :
                    c.mode = "production" /\ c.useDocker /\ c.chmodWorks }
    /\ deployTemplate \in DeployTemplates(MaxDeployLines)
    /\ InitFresh
    /\ runsLeft = 1
    /\ editsLeft = 0

NextDeploy ==
    \/ ScaffolderMain
    \/ WriteCi
    \/ WriteBuild
    \/ ReadDeployTemplate
    \/ StripMigrations
    \/ WriteDeploy
    \/ WriteRollback
    \/ WriteSecurityScan
    \/ WriteScript
    \/ WriteDockerfile
    \/ WriteDockerignore

SpecDeploy == InitDeploy /\ [][NextDeploy]_vars

\* one production-mode run of the scaffolder with a migration command given,
\* over every deploy template
InitMigrate ==
    /\ InitRun
    /\ prog = "scaffolder"
    /\ cfg \in { c \in ScaffolderConfigs({"node"}, {<<"x">>}, {<<"x">>},
                                         {<<SP, "x", SP>>, <<"x", DollarAmp>>,
                                          <<"x", DollarDollar>>}) :
                    c.mode = "production" /\ c.useDocker /\ c.chmodWorks }
    /\ deployTemplate \in DeployTemplates(MaxDeployLines)
    /\ InitFresh
    /\ runsLeft = 1
    /\ editsLeft = 0

SpecMigrate == InitMigrate /\ [][NextDeploy]_vars

----------------------------------------------------------------------------
(* Claims about the runs *)

\* C6: a run of the copier without --force that follows, with nothing edited
\* in between, a successful run without --force changes no file and no
\* directory, logs only Skipped, and when it ends has logged every file.
C6_SecondRunSkipsAll ==
    (prog = "copier" /\ followsClean /\ ~force /\ pc \in {"copy", "exited"}) =>
        /\ disk = snapshot
        /\ dirs = snapDirs
        /\ \A n \in 1..Len(report) : report[n][2] = "Skipped"
        /\ (pc = "exited" /\ exitCode = 0) =>
              /\ Len(report) = Len(Plan)
              /\ \A n \in 1..Len(Plan) : report[n][1] = Plan[n]

\* C6 witness: the second of two runs without --force has ended; the first
\* had copied the files.
C6_Witness ==
    /\ prog = "copier" /\ followsClean /\ ~force
    /\ pc = "exited" /\ exitCode = 0
    /\ Len(report) = 2
    /\ disk[CiYml] = <<"templates/ci.yml">>
    /\ disk[NestedYml] = <<"templates/sub/extra.yml">>

\* a successful run with overwriting in effect has just ended
OverwritingRunEnded ==
    /\ pc = "exited" /\ exitCode = 0
    /\ prog = "scaffolder" \/ (prog = "copier" /\ force)

\* C7: after a run with overwriting in effect (the copier with --force, any
\* run of the scaffolder) every generated file holds exactly the freshly
\* rendered content, whatever it held before.
C7_OverwriteRestoresAll ==
    OverwritingRunEnded => \A path \in Range(Plan) : disk[path] = fresh[path]

\* C8 as claimed: in a run of the scaffolder a target file that existed
\* before the run keeps its prior content.
C8_ExistingFilesKept ==
    (prog = "scaffolder" /\ pc = "exited") =>
        \A path \in ScaffolderPaths : snapshot[path] # Absent => disk[path] = snapshot[path]

\* C8 amended: in every run of the scaffolder a .dockerignore that existed
\* before the run keeps its prior content, and after a successful run every
\* other generated file holds the freshly rendered content, whether or not
\* it existed before.
C8_OnlyDockerignoreKept ==
    (prog = "scaffolder" /\ pc # "idle") =>
        /\ snapshot[Dockerignore] # Absent => disk[Dockerignore] = snapshot[Dockerignore]
        /\ (pc = "exited" /\ exitCode = 0) =>
              \A path \in Range(Plan) \ {Dockerignore} : disk[path] = fresh[path]

\* C8 witness: a successful run has left the user's .dockerignore alone and
\* replaced the user's Dockerfile.
C8_Witness ==
    /\ prog = "scaffolder" /\ pc = "exited" /\ exitCode = 0
    /\ cfg.useDocker /\ cfg.mode = "production"
    /\ snapshot[Dockerignore] = UserText
    /\ disk[Dockerignore] = UserText
    /\ snapshot[CiYml] # Absent
    /\ disk[Dockerfile] = fresh[Dockerfile]

\* the index of a path in the plan of the run
PlanIndex(path) == CHOOSE n \in 1..Len(Plan) : Plan[n] = path

\* C9: once reading a template or writing a file has failed, the run is
\* over with exit code 1; no file later in the sequence has been touched,
\* and every file written earlier in the run holds what was written.
C9_StopOnFirstError ==
    failedAt # "none" =>
        /\ pc \in {"exited", "idle"}
        /\ exitCode = 1
        /\ pc = "exited" =>
              LET plan == Plan
                  k == PlanIndex(failedAt)
              IN /\ \A n \in (k + 1)..Len(plan) :
                       disk[plan[n]] = snapshot[plan[n]] /\ plan[n] \notin Range(written)
                 /\ \A n \in 1..Len(written) :
                       /\ disk[written[n]] = fresh[written[n]]
                       /\ PlanIndex(written[n]) < k

\* C9 witness: the scaffolder failed at rollback.yml after writing three
\* files, with a user's script further down the sequence.
C9_Witness ==
    /\ prog = "scaffolder" /\ pc = "exited" /\ exitCode = 1
    /\ failedAt = RollbackYml
    /\ written = <<CiYml, BuildYml, DeployYml>>
    /\ disk[DeploySh] = UserText

\* no line of the text is a step header that contains "Run migrations"
NoMigrationHeader(text) == NoTargetHeader(Split(text), <<RunMigrations>>)

\* C10 as stated: in production mode with an empty (trimmed) migration
\* command, the step blocks are removed from the template as read, before
\* substitution, and the deploy.yml written holds no step header containing
\* "Run migrations".
C10_StripBeforeSubstitute ==
    (prog = "scaffolder" /\ cfg.mode = "production" /\ MigrationCommandOf(cfg) = <<>>) =>
        /\ pc = "deploy_write" =>
              deployLog = <<"readTemplate", "removeStepBlock">>
        /\ DeployYml \in Range(written) =>
              /\ deployLog = <<"readTemplate", "removeStepBlock",
                               "replacePlaceholders", "writeFile">>
              /\ NoMigrationHeader(disk[DeployYml])

\* C10 as amended: in production mode with an empty (trimmed) migration
\* command, the step blocks are removed from the template as read, before
\* substitution; the text handed to substitution holds no step header
\* containing "Run migrations", and the deploy.yml written holds such a
\* header only on a line where substitution replaced a placeholder.
C10_StripThenSubstitute ==
    (prog = "scaffolder" /\ cfg.mode = "production" /\ MigrationCommandOf(cfg) = <<>>) =>
        /\ pc = "deploy_write" =>
              /\ deployLog = <<"readTemplate", "removeStepBlock">>
              /\ NoMigrationHeader(deployTpl)
        /\ DeployYml \in Range(written) =>
              /\ deployLog = <<"readTemplate", "removeStepBlock",
                               "replacePlaceholders", "writeFile">>
              /\ LET tplLines == Split(deployTpl)
                     outLines == Split(disk[DeployYml])
                 IN /\ Len(outLines) = Len(tplLines)
                    /\ \A n \in 1..Len(outLines) :
                          IsTargetHeader(outLines[n], <<RunMigrations>>) =>
                              /\ Includes(tplLines[n], <<LB>>)
                              /\ outLines[n] # tplLines[n]

\* C10 witness: the answer was blank, the template held two migration steps
\* and another step, and deploy.yml was written with that step.
C10_Witness ==
    /\ prog = "scaffolder" /\ cfg.mode = "production"
    /\ cfg.migrationCommand = <<SP>>
    /\ DeployYml \in Range(written)
    /\ Cardinality({ n \in 1..Len(Split(deployTemplate)) :
                        IsTargetHeader(Split(deployTemplate)[n], <<RunMigrations>>) }) >= 2
    /\ disk[DeployYml] # <<>>
    /\ disk[DeployYml] # replacePlaceholders(deployTemplate, BuildVars(cfg))

\* the text with every match of the key replaced by the value, character
\* for character
RECURSIVE VerbatimFrom(_, _, _, _, _)
VerbatimFrom(s, i, key, val, out) ==
    IF i > Len(s) THEN out
    ELSE LET e == MatchEnd(s, i, key)
         IN IF e = 0 THEN VerbatimFrom(s, i + 1, key, val, Append(out, s[i]))
            ELSE VerbatimFrom(s, e + 1, key, val, out \o val)

RECURSIVE VerbatimEntries(_, _, _)
VerbatimEntries(out, entries, n) ==
    IF n > Len(entries) THEN out
    ELSE VerbatimEntries(VerbatimFrom(out, 1, entries[n][1], entries[n][2], <<>>),
                         entries, n + 1)

\* C11: in production mode with a non-empty (trimmed) migration command no
\* block is removed from the deploy template, and the deploy.yml written
\* keeps every migration step header and holds the command text, character
\* for character, wherever the template held {{MIGRATION_COMMAND}}.
C11_MigrationVerbatim ==
    (prog = "scaffolder" /\ cfg.mode = "production" /\ MigrationCommandOf(cfg) # <<>>) =>
        /\ pc = "deploy_write" =>
              /\ deployLog = <<"readTemplate">>
              /\ deployTpl = deployTemplate
        /\ DeployYml \in Range(written) =>
              /\ deployLog = <<"readTemplate", "replacePlaceholders", "writeFile">>
              /\ disk[DeployYml] = VerbatimEntries(deployTemplate, BuildVars(cfg), 1)
              /\ \A n \in 1..Len(Split(deployTemplate)) :
                    IsTargetHeader(Split(deployTemplate)[n], <<RunMigrations>>) =>
                        \E m \in 1..Len(Split(disk[DeployYml])) :
                            Split(disk[DeployYml])[m] = Split(deployTemplate)[n]

\* the Dockerfile, and .dockerignore when the run is to write it
DockerFilesOfRun ==
    IF cfg.useDocker
    THEN <<Dockerfile>> \o (IF snapshot[Dockerignore] = Absent THEN <<Dockerignore>> ELSE <<>>)
    ELSE <<>>

\* C12 as stated: a successful production-mode run with Docker writes
\* exactly the five workflow files, the three scripts and the Dockerfile,
\* each once, and each script is executable afterwards; a successful
\* simple-mode run writes the combined workflow and no other workflow or
\* script.
C12_NineFilesExecutable ==
    (prog = "scaffolder" /\ pc = "exited" /\ exitCode = 0) =>
        /\ (cfg.mode = "production" /\ cfg.useDocker) =>
              /\ Range(written) = WorkflowPaths \cup ScriptPaths \cup {Dockerfile}
              /\ Len(written) = 9
              /\ ScriptPaths \subseteq execBits
        /\ cfg.mode = "simple" =>
              /\ MonolithYml \in Range(written)
              /\ Range(written) \cap (WorkflowPaths \cup ScriptPaths) = {}

\* C12 as amended: no path is written twice in a run; a script that was
\* written is executable afterwards unless chmod fails, which the run
\* ignores; a successful production-mode run writes the five workflow files
\* and the three scripts, a successful simple-mode run the combined
\* workflow only, and with Docker either run then writes the Dockerfile
\* and, when none existed, .dockerignore.
C12_FilesOfARun ==
    prog = "scaffolder" =>
        /\ \A i, j \in 1..Len(written) : written[i] = written[j] => i = j
        /\ cfg.chmodWorks => (Range(written) \cap ScriptPaths) \subseteq execBits
        /\ (pc = "exited" /\ exitCode = 0) =>
              written = (IF cfg.mode = "simple" THEN <<MonolithYml>>
                         ELSE <<CiYml, BuildYml, DeployYml, RollbackYml, SecurityScanYml,
                                DeploySh, RollbackSh, HealthCheckSh>>)
                        \o DockerFilesOfRun

\* C12 witness: a successful production-mode run with Docker wrote ten
\* files, .dockerignore among them, and chmod failed on the scripts.
C12_Witness ==
    /\ prog = "scaffolder" /\ pc = "exited" /\ exitCode = 0
    /\ cfg.mode = "production" /\ cfg.useDocker /\ ~cfg.chmodWorks
    /\ Len(written) = 10
    /\ execBits = {}

\* C12 witness of the scripts made executable
C12_WitnessExecutable ==
    /\ prog = "scaffolder" /\ pc = "exited" /\ exitCode = 0
    /\ cfg.mode = "production" /\ cfg.chmodWorks
    /\ execBits = ScriptPaths

----------------------------------------------------------------------------
(* Further claims about removeStepBlock, checked under SpecRemove *)

\* line h is a header for the step name and the only line that contains it
OnlyTargetHeader(lines, h, sub) ==
    /\ IsTargetHeader(lines[h], sub)
    /\ \A i \in (1..Len(lines)) \ {h} : ~Includes(lines[i], sub)

\* the first line after h that opens a step at the indentation of line h or
\* a shallower one; past the last line when there is none
RegionEnd(lines, h) ==
    LET ends == { i \in (h + 1)..Len(lines) :
                     IsStepBoundaryLine(lines[i]) /\ Indent(lines[i]) <= Indent(lines[h]) }
    IN IF ends = {} THEN Len(lines) + 1
       ELSE CHOOSE i \in ends : \A j \in ends : i <= j

\* C13: the region removed for a matched header is the header and the lines
\* after it up to, not including, the next line that opens a step at the
\* same or a shallower indentation (or the end of the document): a deeper
\* line never ends it and a step header at column 0 does.
C13_RegionByIndentation ==
    remPc = "done" =>
        \A h \in 1..Len(RemLines) :
            OnlyTargetHeader(RemLines, h, stepIn) =>
                yamlOut = Join(SubSeq(RemLines, 1, h - 1)
                               \o SubSeq(RemLines, RegionEnd(RemLines, h), Len(RemLines)))

\* sub is lines with some of its members left out
RECURSIVE IsSubsequenceOf(_, _)
IsSubsequenceOf(sub, lines) ==
    IF sub = <<>> THEN TRUE
    ELSE IF lines = <<>> THEN FALSE
    ELSE IF Head(sub) = Head(lines) THEN IsSubsequenceOf(Tail(sub), Tail(lines))
    ELSE IsSubsequenceOf(sub, Tail(lines))

\* C15: for every document and step name the text removeStepBlock returns
\* is made of lines of its argument, in order; none of its lines, once
\* trimmed, starts with "- name:" and contains the step name; and
\* removeStepBlock applied to it returns it unchanged.
C15_IdempotentComplete ==
    /\ remPc \in {"done", "again"} =>
          /\ yamlOut = <<>> \/ IsSubsequenceOf(Split(yamlOut), RemLines)
          /\ NoTargetHeader(Split(yamlOut), stepIn)
    /\ remPc = "again" => yamlAgain = yamlOut

\* C15 witness: two headers for the step name, the second inside the lines
\* skipped for the first, and a line kept; the second call changed nothing.
C15_Witness ==
    /\ remPc = "again"
    /\ \E h \in 1..(Len(RemLines) - 1) :
          /\ IsTargetHeader(RemLines[h], stepIn)
          /\ IsTargetHeader(RemLines[h + 1], stepIn)
          /\ MatchesStepRegex(RemLines[h + 1])
    /\ yamlOut # <<>>
    /\ yamlOut # yamlIn
    /\ yamlAgain = yamlOut

----------------------------------------------------------------------------
(* Further claims about replacePlaceholders, checked under SpecReplace *)

\* the lists that hold the entries of the map in another order
Reorderings(entries) ==
    LET n == Len(entries)
    IN { [k \in 1..n |-> entries[f[k]]] :
            f \in { g \in [1..n -> 1..n] : \A a, b \in 1..n : g[a] = g[b] => a = b } }

\* C14: the rendered text is the same for every order in which the keys of
\* the map are inserted and processed.
C14_OrderIrrelevant ==
    repPc = "done" =>
        \A entries \in Reorderings(varsIn) :
            replacePlaceholders(tplIn, entries) = tplOut

====
